---------------------------- MODULE Spec2Model ----------------------------
(***************************************************************************)
(* Sentinel-1 burn-scar scripts (STEP1_SAR_BURN_SCAR):                     *)
(*   s1_avg_before_after.py              the before/after averager          *)
(*   s1_relative_burn_ratio_from_pairs.py the relative burn ratio           *)
(*   s1_extract_images.py                the batch preview renderer         *)
(*                                                                         *)
(* File names and band descriptions are strings; a raster band is a        *)
(* function from pixel index to a value; a value is a rational n/d in      *)
(* lowest terms or one of the IEEE specials NaN, Inf, -Inf. Python's None is*)
(* the string "None" for strings and dates and the index 0 for band        *)
(* indices (band indices are 1-based, and the code tests them by truth).   *)
(***************************************************************************)
EXTENDS Integers, Sequences, FiniteSets, TLC

(***************************************************************************)
(* Bounds of the model.                                                    *)
(***************************************************************************)
\* files in one averager run
MaxFiles == 2
\* pixels of a raster (rasters are flattened to 1..NPix)
NPix == 2
\* bands of a raster handed to the band resolver alone
MaxBands == 2

(***************************************************************************)
(* Strings.                                                                *)
(***************************************************************************)
Ch(s, i) == SubSeq(s, i, i)

Digits == {"0", "1", "2", "3", "4", "5", "6", "7", "8", "9"}

DigitVal(c) ==
    CASE c = "0" -> 0 [] c = "1" -> 1 [] c = "2" -> 2 [] c = "3" -> 3
      [] c = "4" -> 4 [] c = "5" -> 5 [] c = "6" -> 6 [] c = "7" -> 7
      [] c = "8" -> 8 [] c = "9" -> 9

LowerLetters == "abcdefghijklmnopqrstuvwxyz"
UpperLetters == "ABCDEFGHIJKLMNOPQRSTUVWXYZ"

UpperCh(c) ==
    IF \E k \in 1..26 : Ch(LowerLetters, k) = c
    THEN Ch(UpperLetters, CHOOSE k \in 1..26 : Ch(LowerLetters, k) = c)
    ELSE c

RECURSIVE str_upper(_)
\* str.upper()
str_upper(s) ==
    IF s = "" THEN "" ELSE UpperCh(Ch(s, 1)) \o str_upper(SubSeq(s, 2, Len(s)))

RECURSIVE LStrip(_)
LStrip(s) ==
    IF s # "" /\ Ch(s, 1) = " " THEN LStrip(SubSeq(s, 2, Len(s))) ELSE s

RECURSIVE RStrip(_)
RStrip(s) ==
    IF s # "" /\ Ch(s, Len(s)) = " " THEN RStrip(SubSeq(s, 1, Len(s) - 1)) ELSE s

\* str.strip()
str_strip(s) == RStrip(LStrip(s))

\* sub in s
Contains(sub, s) ==
    \E p \in 1..(Len(s) - Len(sub) + 1) : SubSeq(s, p, p + Len(sub) - 1) = sub

None == "None"
\* None as a band index
NoIdx == 0

(***************************************************************************)
(* Dates: extract_date_from_name.                                          *)
(***************************************************************************)
NoDate == [kind |-> "None", y |-> 0, m |-> 0, d |-> 0]
ValueError == [kind |-> "ValueError", y |-> 0, m |-> 0, d |-> 0]

IsLeap(y) == (y % 4 = 0 /\ y % 100 # 0) \/ y % 400 = 0

DaysInMonth(y, m) ==
    IF m = 2 THEN (IF IsLeap(y) THEN 29 ELSE 28)
    ELSE IF m \in {4, 6, 9, 11} THEN 30 ELSE 31

\* datetime.date(y, m, d): raises ValueError outside the calendar
MakeDate(y, m, d) ==
    IF m >= 1 /\ m <= 12 /\ d >= 1 /\ d <= DaysInMonth(y, m)
    THEN [kind |-> "date", y |-> y, m |-> m, d |-> d]
    ELSE ValueError

Num2(s, p) == DigitVal(Ch(s, p)) * 10 + DigitVal(Ch(s, p + 1))
Num4(s, p) == Num2(s, p) * 100 + Num2(s, p + 2)

\* (20\d{2}) at p
YearAt(s, p) ==
    /\ p + 3 <= Len(s)
    /\ SubSeq(s, p, p + 1) = "20"
    /\ Ch(s, p + 2) \in Digits
    /\ Ch(s, p + 3) \in Digits

\* ([01]\d) at p
MonthAt(s, p) ==
    /\ p + 1 <= Len(s)
    /\ Ch(s, p) \in {"0", "1"}
    /\ Ch(s, p + 1) \in Digits

\* ([0-3]\d) at p
DayAt(s, p) ==
    /\ p + 1 <= Len(s)
    /\ Ch(s, p) \in {"0", "1", "2", "3"}
    /\ Ch(s, p + 1) \in Digits

\* (20\d{2})([01]\d)([0-3]\d)T matched at p
Match1(s, p) ==
    /\ YearAt(s, p)
    /\ MonthAt(s, p + 4)
    /\ DayAt(s, p + 6)
    /\ p + 8 <= Len(s)
    /\ Ch(s, p + 8) = "T"

\* [-_]? at p: the position after it (the separator cannot start a number,
\* so the optional separator is taken whenever it is there)
SkipSep(s, p) == IF p <= Len(s) /\ Ch(s, p) \in {"-", "_"} THEN p + 1 ELSE p

\* (20\d{2})[-_]?([01]\d)[-_]?([0-3]\d) matched at p
Match2(s, p) ==
    /\ YearAt(s, p)
    /\ MonthAt(s, SkipSep(s, p + 4))
    /\ DayAt(s, SkipSep(s, SkipSep(s, p + 4) + 2))

extract_date_from_name(name) ==
    IF \E p \in 1..Len(name) : Match1(name, p)
    THEN LET p == CHOOSE q \in 1..Len(name) :
                      Match1(name, q) /\ \A r \in 1..(q - 1) : ~Match1(name, r)
         IN  MakeDate(Num4(name, p), Num2(name, p + 4), Num2(name, p + 6))
    ELSE IF \E p \in 1..Len(name) : Match2(name, p)
    THEN LET p  == CHOOSE q \in 1..Len(name) :
                       Match2(name, q) /\ \A r \in 1..(q - 1) : ~Match2(name, r)
             pm == SkipSep(name, p + 4)
             pd == SkipSep(name, pm + 2)
         IN  MakeDate(Num4(name, p), Num2(name, pm), Num2(name, pd))
    ELSE NoDate

THRESHOLD == [kind |-> "date", y |-> 2023, m |-> 7, d |-> 18]

\* datetime.date.__lt__
DateLT(a, b) ==
    \/ a.y < b.y
    \/ a.y = b.y /\ a.m < b.m
    \/ a.y = b.y /\ a.m = b.m /\ a.d < b.d

(***************************************************************************)
(* Band resolution.                                                        *)
(***************************************************************************)
TagKeys == <<"BAND_NAME", "name", "band_name", "long_name">>

Falsy(s) == s = None \/ s = ""

RECURSIVE DescLoop(_, _, _)
\* for i, d in enumerate(ds.descriptions, start=1)
DescLoop(descs, i, acc) ==
    IF i > Len(descs) THEN acc
    ELSE IF Falsy(descs[i]) THEN DescLoop(descs, i + 1, acc)
    ELSE LET t == str_upper(str_strip(descs[i]))
         IN  DescLoop(descs, i + 1,
                 [VV |-> IF t = "VV" /\ acc.VV = NoIdx THEN i ELSE acc.VV,
                  VH |-> IF t = "VH" /\ acc.VH = NoIdx THEN i ELSE acc.VH])

\* tags.get(k)
TagGet(tags, k) == IF k \in DOMAIN tags THEN tags[k] ELSE None

RECURSIVE TagLoopOverride(_, _, _, _)
\* faulty variant: a tag overrides what a description (or an earlier tag) resolved
TagLoopOverride(ds, i, k, acc) ==
    IF i > ds.count THEN acc
    ELSE IF k > Len(TagKeys) THEN TagLoopOverride(ds, i + 1, 1, acc)
    ELSE LET v == TagGet(ds.tags[i], TagKeys[k])
         IN  IF Falsy(v) THEN TagLoopOverride(ds, i, k + 1, acc)
             ELSE LET t == str_upper(str_strip(v))
                  IN  TagLoopOverride(ds, i, k + 1,
                          [VV |-> IF t = "VV" THEN i ELSE acc.VV,
                           VH |-> IF t = "VH" THEN i ELSE acc.VH])

RECURSIVE TagLoop(_, _, _, _)
\* for i in range(1, ds.count + 1): for k in (...)
TagLoop(ds, i, k, acc) ==
    IF i > ds.count THEN acc
    ELSE IF k > Len(TagKeys) THEN TagLoop(ds, i + 1, 1, acc)
    ELSE LET v == TagGet(ds.tags[i], TagKeys[k])
         IN  IF Falsy(v) THEN TagLoop(ds, i, k + 1, acc)
             ELSE LET t == str_upper(str_strip(v))
                  IN  TagLoop(ds, i, k + 1,
                          [VV |-> IF t = "VV" /\ acc.VV = NoIdx THEN i ELSE acc.VV,
                           VH |-> IF t = "VH" /\ acc.VH = NoIdx THEN i ELSE acc.VH])

\* faulty variant: a single band is taken for both polarizations whatever the name
NameHintAny(ds, filename, acc) ==
    IF ds.count = 1
    THEN [VV |-> IF acc.VV = NoIdx THEN 1 ELSE acc.VV,
          VH |-> IF acc.VH = NoIdx THEN 1 ELSE acc.VH]
    ELSE acc

\* filename hint for single-band
NameHint(ds, filename, acc) ==
    LET name == str_upper(filename)
    IN  IF ds.count = 1
        THEN [VV |-> IF Contains("VV", name) /\ acc.VV = NoIdx THEN 1 ELSE acc.VV,
              VH |-> IF Contains("VH", name) /\ acc.VH = NoIdx THEN 1 ELSE acc.VH]
        ELSE acc

\* faulty variant: the fallback also fills in when one polarization was resolved
FallbackEither(ds, acc) ==
    IF ds.count >= 2 /\ (acc.VV = NoIdx \/ acc.VH = NoIdx)
    THEN [VV |-> 1, VH |-> 2]
    ELSE acc

\* fallback by position for 2-band products
Fallback(ds, acc) ==
    IF ds.count >= 2 /\ acc.VV = NoIdx /\ acc.VH = NoIdx
    THEN [VV |-> 1, VH |-> 2]
    ELSE acc

AfterDescriptions(ds) ==
    IF Len(ds.descriptions) > 0
    THEN DescLoop(ds.descriptions, 1, [VV |-> NoIdx, VH |-> NoIdx])
    ELSE [VV |-> NoIdx, VH |-> NoIdx]

AfterTags(ds) == TagLoop(ds, 1, 1, AfterDescriptions(ds))

\* s1_avg_before_after.find_vv_vh_indices
find_vv_vh_indices(ds, filename) ==
    Fallback(ds, NameHint(ds, filename, AfterTags(ds)))

\* s1_relative_burn_ratio_from_pairs.find_pol_indices: only the present keys
find_pol_indices(ds, filename) ==
    LET r == Fallback(ds, NameHint(ds, filename, AfterTags(ds)))
    IN  [pol \in {q \in {"VV", "VH"} : r[q] # NoIdx} |-> r[pol]]

\* x or i
PyOr(x, i) == IF x # NoIdx THEN x ELSE i

RECURSIVE DescLoopOr(_, _, _)
DescLoopOr(descs, i, acc) ==
    IF i > Len(descs) THEN acc
    ELSE IF Falsy(descs[i]) THEN DescLoopOr(descs, i + 1, acc)
    ELSE LET t == str_upper(str_strip(descs[i]))
         IN  DescLoopOr(descs, i + 1,
                 [VV |-> IF t = "VV" THEN PyOr(acc.VV, i) ELSE acc.VV,
                  VH |-> IF t = "VH" THEN PyOr(acc.VH, i) ELSE acc.VH])

RECURSIVE TagLoopOr(_, _, _, _)
TagLoopOr(ds, i, k, acc) ==
    IF i > ds.count THEN acc
    ELSE IF k > Len(TagKeys) THEN TagLoopOr(ds, i + 1, 1, acc)
    ELSE LET v == TagGet(ds.tags[i], TagKeys[k])
         IN  IF Falsy(v) THEN TagLoopOr(ds, i, k + 1, acc)
             ELSE LET t == str_upper(str_strip(v))
                  IN  TagLoopOr(ds, i, k + 1,
                          [VV |-> IF t = "VV" THEN PyOr(acc.VV, i) ELSE acc.VV,
                           VH |-> IF t = "VH" THEN PyOr(acc.VH, i) ELSE acc.VH])

\* s1_extract_images.find_band_indices_for_vv_vh
find_band_indices_for_vv_vh(ds, filename) ==
    LET a0 == IF Len(ds.descriptions) > 0
              THEN DescLoopOr(ds.descriptions, 1, [VV |-> NoIdx, VH |-> NoIdx])
              ELSE [VV |-> NoIdx, VH |-> NoIdx]
        a1 == TagLoopOr(ds, 1, 1, a0)
        name == str_upper(filename)
        a2 == IF ds.count = 1
              THEN [VV |-> IF Contains("VV", name) /\ a1.VV = NoIdx THEN 1 ELSE a1.VV,
                    VH |-> IF Contains("VH", name) /\ a1.VH = NoIdx THEN 1 ELSE a1.VH]
              ELSE a1
    IN  IF ds.count >= 2
        THEN (IF a2.VV = NoIdx /\ a2.VH = NoIdx THEN [VV |-> 1, VH |-> 2] ELSE a2)
        ELSE a2

(***************************************************************************)
(* Pixel values: rationals in lowest terms and the IEEE specials.          *)
(***************************************************************************)
RECURSIVE GCD(_, _)
GCD(a, b) == IF b = 0 THEN a ELSE GCD(b, a % b)

Abs(x) == IF x < 0 THEN -x ELSE x

Num(n, d) ==
    LET g == GCD(Abs(n), Abs(d))
        s == IF d < 0 THEN -1 ELSE 1
    IN  [k |-> "num", n |-> (s * n) \div g, d |-> (s * d) \div g]

NaN == [k |-> "nan", n |-> 0, d |-> 1]
Inf == [k |-> "inf", n |-> 1, d |-> 1]
NegInf == [k |-> "inf", n |-> -1, d |-> 1]
\* ds.nodata is None
NoneV == [k |-> "None", n |-> 0, d |-> 1]

Zero == Num(0, 1)
Two == Num(2, 1)

\* EPS = 1e-12, and n/d * 1e12 (a finite float32 for the values modelled)
EPS == [k |-> "eps", n |-> 1, d |-> 1]
OverEps(a) == [k |-> "e12", n |-> a.n, d |-> a.d]

\* np.isfinite
isfinite(v) == v.k \in {"num", "e12", "eps", "big"}

\* a + b on finite values
Add(a, b) == Num(a.n * b.d + b.n * a.d, a.d * b.d)

\* s / c for a count c > 0
DivCount(s, c) == Num(s.n, s.d * c)

NODATA_OUT == Num(-9999, 1)

Pixels == 1..NPix

(***************************************************************************)
(* Rasters.                                                                *)
(***************************************************************************)
G0 == [crs |-> "EPSG:32633", transform |-> "T0", width |-> NPix, height |-> 1]
G1 == [crs |-> "EPSG:32633", transform |-> "T1", width |-> NPix, height |-> 1]
\* ref = None
NoRef == [crs |-> "None", transform |-> "None", width |-> 0, height |-> 0]

Const(v) == [p \in Pixels |-> v]
Ramp == [p \in Pixels |-> Num(p, 1)]
Holes == [p \in Pixels |-> IF p = 1 THEN NaN ELSE Zero]

EmptyTags == [k \in {} |-> ""]
NoTags(count) == [b \in 1..count |-> EmptyTags]
NoDescs(count) == [b \in 1..count |-> None]

Dataset(count, descs, tags, nodata, grid, bands) ==
    [count |-> count, descriptions |-> descs, tags |-> tags,
     nodata |-> nodata, grid |-> grid, bands |-> bands]

\* the rasters a folder may hold
AvgDatasets ==
    { Dataset(1, NoDescs(1), NoTags(1), NoneV, G0, <<Const(Two)>>),
      Dataset(1, NoDescs(1), NoTags(1), NoneV, G0, <<Ramp>>),
      Dataset(1, NoDescs(1), NoTags(1), Zero, G0, <<Holes>>),
      Dataset(1, NoDescs(1), NoTags(1), NoneV, G0, <<Holes>>),
      Dataset(1, NoDescs(1), NoTags(1), NoneV, G1, <<Ramp>>),
      Dataset(2, NoDescs(2), NoTags(2), NaN, G0, <<Ramp, Const(Two)>>) }

\* what the two reproject() calls may write on the reference grid:
\* dst_data (float32, NaN where empty) and dst_valid (uint8)
Ones == [p \in Pixels |-> 1]
LastOnly == [p \in Pixels |-> IF p = NPix THEN 1 ELSE 0]
Warps ==
    { [data |-> Ramp, valid |-> LastOnly],
      [data |-> Holes, valid |-> Ones],
      [data |-> Const(NaN), valid |-> Ones] }

\* faulty variant: only the declared nodata value is masked
read_band_masked_nodata_only(ds, band_index) ==
    LET arr == ds.bands[band_index]
        nd  == ds.nodata
    IN  [data |-> arr,
         mask |-> [p \in Pixels |-> nd # NoneV /\ nd # NaN /\ arr[p] = nd]]

\* read_band_masked
read_band_masked(ds, band_index) ==
    LET arr == ds.bands[band_index]
        nd  == ds.nodata
    IN  [data |-> arr,
         mask |-> [p \in Pixels |->
                      \/ ~isfinite(arr[p])
                      \/ (nd # NoneV /\ nd # NaN /\ arr[p] = nd)]]

same_grid(ds, ref) ==
    /\ ds.grid.crs = ref.crs
    /\ ds.grid.transform = ref.transform
    /\ ds.grid.width = ref.width
    /\ ds.grid.height = ref.height

\* band.filled(np.nan); valid = (~band.mask) & np.isfinite(data)
AlignSame(band) ==
    LET data == [p \in Pixels |-> IF band.mask[p] THEN NaN ELSE band.data[p]]
    IN  [data |-> data,
         valid |-> [p \in Pixels |-> ~band.mask[p] /\ isfinite(data[p])]]

\* reproject_to_ref, given what the two reproject() calls wrote
reproject_to_ref(dst_data, dst_valid) ==
    [data |-> dst_data,
     valid |-> [p \in Pixels |-> dst_valid[p] = 1 /\ isfinite(dst_data[p])]]

(***************************************************************************)
(* The averager: s1_avg_before_after.main.                                 *)
(***************************************************************************)
VARIABLES
    files,       \* list_tiffs(root, recursive): sorted names
    pc,          \* where main stands
    i,           \* index of the next file of the loop
    ref,         \* reference grid
    sums,        \* groups[which][pol]: <<>> is None
    counts,      \* groups[which]["count"][pol]: <<>> is None
    total_used,  \* total_used[which][pol]
    opened,      \* the rasters opened so far, by file index
    records,     \* the aligned (file, group, pol, data, valid) accumulated so far
    wi,          \* index of the next output of the write loop
    written,     \* the rasters on disk, by output: <<>> is no file
    log,         \* what was printed
    err          \* the exception that ended the run, "" when none

avgVars == <<files, pc, i, ref, sums, counts, total_used, opened, records,
             wi, written, log, err>>

Groups == {"before", "after"}
Pols == {"VV", "VH"}
\* for pol in ("VV", "VH")
PolOrder == <<"VV", "VH">>
\* outputs.items()
Outputs == << <<"before", "VV">>, <<"before", "VH">>,
              <<"after", "VV">>, <<"after", "VH">> >>

Names ==
    { "S1A_20230712T013245_VV.tif",
      "2023-07-20_VV.tif",
      "no_date_here.tif",
      "before_20230101.tif",
      "after_20230801.tif",
      "before_20230101_VV.tif",
      "after_20230801_VV.tif",
      "S1_20230231T_VV.tif",
      "x_20230718_vh.tif" }

\* code points of the characters of Names, ascending
Alphabet == "-.0123456789ABCDEFGHIJKLMNOPQRSTUVWXYZ_abcdefghijklmnopqrstuvwxyz"
Ord(c) == CHOOSE k \in 1..Len(Alphabet) : Ch(Alphabet, k) = c

RECURSIVE StrLT(_, _)
\* a < b on str
StrLT(a, b) ==
    IF b = "" THEN FALSE
    ELSE IF a = "" THEN TRUE
    ELSE IF Ch(a, 1) = Ch(b, 1)
         THEN StrLT(SubSeq(a, 2, Len(a)), SubSeq(b, 2, Len(b)))
         ELSE Ord(Ch(a, 1)) < Ord(Ch(b, 1))

\* sorted(set(files))
FileLists ==
    { s \in UNION { [1..n -> Names] : n \in 0..MaxFiles } :
        \A j \in 1..(Len(s) - 1) : StrLT(s[j], s[j + 1]) }

\* the date of each name, and the bands of each raster under each name
DateOf == [n \in Names |-> extract_date_from_name(n)]
IdxOf == [ds \in AvgDatasets, n \in Names |-> find_vv_vh_indices(ds, n)]

NoArr == << >>
\* raster never opened (the file was skipped)
NoDs == [count |-> 0]

AvgInit ==
    /\ files \in FileLists
    /\ pc = "start"
    /\ i = 1
    /\ ref = NoRef
    /\ sums = [g \in Groups |-> [pol \in Pols |-> NoArr]]
    /\ counts = [g \in Groups |-> [pol \in Pols |-> NoArr]]
    /\ total_used = [g \in Groups |-> [pol \in Pols |-> 0]]
    /\ opened = << >>
    /\ records = << >>
    /\ wi = 1
    /\ written = [o \in 1..Len(Outputs) |-> NoArr]
    /\ log = << >>
    /\ err = ""

\* if not files: print(...); return
ListFiles ==
    /\ pc = "start"
    /\ IF files = << >>
       THEN /\ pc' = "done"
            /\ log' = Append(log, <<"No GeoTIFFs found">>)
       ELSE /\ pc' = "loop"
            /\ log' = log
    /\ UNCHANGED <<files, i, ref, sums, counts, total_used, opened, records,
                   wi, written, err>>

\* acq = extract_date_from_name(tif.name) raised
DateRaises ==
    /\ pc = "loop"
    /\ i <= Len(files)
    /\ DateOf[files[i]] = ValueError
    /\ pc' = "crashed"
    /\ err' = "ValueError"
    /\ UNCHANGED <<files, i, ref, sums, counts, total_used, opened, records,
                   wi, written, log>>

\* if acq is None: print("[WARN] Skipping ..."); continue
SkipNoDate ==
    /\ pc = "loop"
    /\ i <= Len(files)
    /\ DateOf[files[i]] = NoDate
    /\ log' = Append(log, <<"WARN", files[i]>>)
    /\ opened' = Append(opened, NoDs)
    /\ i' = i + 1
    /\ UNCHANGED <<files, pc, ref, sums, counts, total_used, records,
                   wi, written, err>>

\* rasterio.open(tif) raised
OpenFails ==
    /\ pc = "loop"
    /\ i <= Len(files)
    /\ DateOf[files[i]].kind = "date"
    /\ pc' = "crashed"
    /\ err' = "RasterioIOError"
    /\ UNCHANGED <<files, i, ref, sums, counts, total_used, opened, records,
                   wi, written, log>>

\* faulty variant: the threshold day counts as "before"
WhichInclusive(acq) ==
    IF DateLT(acq, THRESHOLD) \/ acq = THRESHOLD THEN "before" ELSE "after"

\* which = "before" if acq < THRESHOLD else "after"
Which(acq) == IF DateLT(acq, THRESHOLD) THEN "before" ELSE "after"

\* if not b or b > ds.count: continue
Usable(ds, b) == ~(b = NoIdx \/ b > ds.count)

\* faulty variant: the sum is overwritten, not added to
AccSumOverwrite(sum, rec) ==
    [p \in Pixels |-> IF rec.valid[p] THEN rec.data[p] ELSE sum[p]]

\* groups[which][pol][valid] += data[valid].astype("float64")
AccSum(sum, rec) ==
    [p \in Pixels |-> IF rec.valid[p] THEN Add(sum[p], rec.data[p]) ELSE sum[p]]

\* faulty variant: every pixel is counted, valid or not
AccCountAll(cnt, rec) == [p \in Pixels |-> cnt[p] + 1]

\* groups[which]["count"][pol][valid] += 1
AccCount(cnt, rec) ==
    [p \in Pixels |-> IF rec.valid[p] THEN cnt[p] + 1 ELSE cnt[p]]

\* np.zeros((ref["height"], ref["width"]))
ZerosSum == [p \in Pixels |-> Zero]
ZerosCount == [p \in Pixels |-> 0]

\* faulty variant: a file without a valid pixel is not counted as contributing
AccumulatePolValidOnly(st, which, pol, b, rec, fi) ==
    LET s0 == IF st.sums[which][pol] = NoArr THEN ZerosSum ELSE st.sums[which][pol]
        c0 == IF st.sums[which][pol] = NoArr THEN ZerosCount ELSE st.counts[which][pol]
    IN  [sums |-> [st.sums EXCEPT ![which][pol] = AccSum(s0, rec)],
         counts |-> [st.counts EXCEPT ![which][pol] = AccCount(c0, rec)],
         total_used |-> [st.total_used EXCEPT ![which][pol] =
                            IF \E p \in Pixels : rec.valid[p] THEN @ + 1 ELSE @],
         records |-> Append(st.records,
                        [file |-> fi, which |-> which, pol |-> pol, band |-> b,
                         data |-> rec.data, valid |-> rec.valid])]

\* one polarization of one file: st is [sums, counts, total_used, records]
AccumulatePol(st, which, pol, b, rec, fi) ==
    LET s0 == IF st.sums[which][pol] = NoArr THEN ZerosSum ELSE st.sums[which][pol]
        c0 == IF st.sums[which][pol] = NoArr THEN ZerosCount ELSE st.counts[which][pol]
    IN  [sums |-> [st.sums EXCEPT ![which][pol] = AccSum(s0, rec)],
         counts |-> [st.counts EXCEPT ![which][pol] = AccCount(c0, rec)],
         total_used |-> [st.total_used EXCEPT ![which][pol] = @ + 1],
         records |-> Append(st.records,
                        [file |-> fi, which |-> which, pol |-> pol, band |-> b,
                         data |-> rec.data, valid |-> rec.valid])]

\* the body of "for pol in (VV, VH)" for one polarization
PolStep(st, ds, newRef, which, pol, idx, warped, fi) ==
    IF ~Usable(ds, idx[pol]) THEN st
    ELSE LET band == read_band_masked(ds, idx[pol])
             rec  == IF same_grid(ds, newRef) THEN AlignSame(band)
                     ELSE reproject_to_ref(warped[pol].data, warped[pol].valid)
         IN  AccumulatePol(st, which, pol, idx[pol], rec, fi)

\* one file with a date: open, resolve the bands, accumulate VV then VH
ProcessFile ==
    /\ pc = "loop"
    /\ i <= Len(files)
    /\ DateOf[files[i]].kind = "date"
    /\ \E ds \in AvgDatasets :
         LET which  == Which(DateOf[files[i]])
             newRef == IF ref = NoRef THEN ds.grid ELSE ref
             idx    == IdxOf[ds, files[i]]
             warps  == IF same_grid(ds, newRef)
                       THEN {[data |-> Const(NaN), valid |-> [p \in Pixels |-> 0]]}
                       ELSE Warps
         IN  \E wVV \in warps :
             \E wVH \in (IF Usable(ds, idx["VH"]) THEN warps ELSE {wVV}) :
             \E st2 \in
                 { LET warped == [VV |-> wVV, VH |-> wVH]
                       st0 == [sums |-> sums, counts |-> counts,
                               total_used |-> total_used, records |-> records]
                       st1 == PolStep(st0, ds, newRef, which, PolOrder[1], idx, warped, i)
                   IN  PolStep(st1, ds, newRef, which, PolOrder[2], idx, warped, i) } :
               /\ ref' = newRef
               /\ sums' = st2.sums
               /\ counts' = st2.counts
               /\ total_used' = st2.total_used
               /\ records' = st2.records
               /\ opened' = Append(opened, ds)
    /\ i' = i + 1
    /\ UNCHANGED <<files, pc, wi, written, log, err>>

\* reproject() raised while a file on another grid was aligned
ReprojectFails ==
    /\ pc = "loop"
    /\ i <= Len(files)
    /\ DateOf[files[i]].kind = "date"
    /\ ref # NoRef
    /\ \E ds \in AvgDatasets :
         /\ ~same_grid(ds, ref)
         /\ \E pol \in Pols : Usable(ds, IdxOf[ds, files[i]][pol])
    /\ pc' = "crashed"
    /\ err' = "CPLE_AppDefinedError"
    /\ UNCHANGED <<files, i, ref, sums, counts, total_used, opened, records,
                   wi, written, log>>

\* faulty variant: the write loop may start while files are still to be read
EndLoopEarly ==
    /\ pc = "loop"
    /\ pc' = "write"
    /\ UNCHANGED <<files, i, ref, sums, counts, total_used, opened, records,
                   wi, written, log, err>>

\* the file loop is exhausted
EndLoop ==
    /\ pc = "loop"
    /\ i > Len(files)
    /\ pc' = "write"
    /\ UNCHANGED <<files, i, ref, sums, counts, total_used, opened, records,
                   wi, written, log, err>>

\* cnt_arr.max()
ArrMax(cnt) == CHOOSE m \in {cnt[p] : p \in Pixels} : \A p \in Pixels : cnt[p] <= m

\* faulty variant: the test for an all-zero count grid is left out
NoDataUnlessCreated(r, sum_arr, cnt_arr) ==
    r = NoRef \/ sum_arr = NoArr \/ cnt_arr = NoArr

\* if ref is None or sum_arr is None or cnt_arr is None or cnt_arr.max() == 0
NoData(r, sum_arr, cnt_arr) ==
    r = NoRef \/ sum_arr = NoArr \/ cnt_arr = NoArr \/ ArrMax(cnt_arr) = 0

\* avg = full(NODATA_OUT); avg[valid] = sum_arr[valid] / cnt_arr[valid]
Average(sum_arr, cnt_arr) ==
    [p \in Pixels |->
        IF cnt_arr[p] > 0 THEN DivCount(sum_arr[p], cnt_arr[p]) ELSE NODATA_OUT]

\* one turn of "for (which, pol), path in outputs.items()"
WriteOutput ==
    /\ pc = "write"
    /\ wi <= Len(Outputs)
    /\ LET which   == Outputs[wi][1]
           pol     == Outputs[wi][2]
           sum_arr == sums[which][pol]
           cnt_arr == counts[which][pol]
       IN  IF NoData(ref, sum_arr, cnt_arr)
           THEN /\ log' = Append(log, <<"INFO", which, pol>>)
                /\ written' = written
           ELSE /\ written' = [written EXCEPT ![wi] = Average(sum_arr, cnt_arr)]
                /\ log' = Append(log, <<"OK", which, pol, total_used[which][pol]>>)
    /\ wi' = wi + 1
    /\ UNCHANGED <<files, pc, i, ref, sums, counts, total_used, opened, records, err>>

\* print("Done.")
Finish ==
    /\ pc = "write"
    /\ wi > Len(Outputs)
    /\ pc' = "done"
    /\ log' = Append(log, <<"Done.">>)
    /\ UNCHANGED <<files, i, ref, sums, counts, total_used, opened, records,
                   wi, written, err>>

(***************************************************************************)
(* The band resolvers on their own: every small raster header and name.    *)
(***************************************************************************)
VARIABLES
    r_pc,        \* "in": not resolved yet, "out": resolved
    r_ds,        \* the raster header: count, descriptions, tags
    r_name,      \* the file name
    r_out        \* what each of the three resolvers returned

resVars == <<r_pc, r_ds, r_name, r_out>>

DescVals == {None, "VV", " vh ", "HH"}
TagDicts ==
    { EmptyTags,
      [k \in {"BAND_NAME"} |-> "VH"],
      [k \in {"name"} |-> "vv"],
      [k \in {"BAND_NAME", "long_name"} |-> IF k = "BAND_NAME" THEN "VH" ELSE "VV"] }
ResNames == {"a.tif", "x_VV.tif", "s1_vh.tif", "vv_vh.tif"}

Headers ==
    UNION { [count : {n}, descriptions : [1..n -> DescVals], tags : [1..n -> TagDicts]]
            : n \in 1..MaxBands }

NoOut == [avg |-> [VV |-> NoIdx, VH |-> NoIdx],
          rbr |-> [pol \in {} |-> NoIdx],
          png |-> [VV |-> NoIdx, VH |-> NoIdx]]

ResInit ==
    /\ r_pc = "in"
    /\ r_ds \in Headers
    /\ r_name \in ResNames
    /\ r_out = NoOut

Resolve ==
    /\ r_pc = "in"
    /\ r_out' = [avg |-> find_vv_vh_indices(r_ds, r_name),
                 rbr |-> find_pol_indices(r_ds, r_name),
                 png |-> find_band_indices_for_vv_vh(r_ds, r_name)]
    /\ r_pc' = "out"
    /\ UNCHANGED <<r_ds, r_name>>

ResIdle ==
    /\ r_pc = "idle"
    /\ r_ds = [count |-> 0]
    /\ r_name = ""
    /\ r_out = NoOut

(***************************************************************************)
(* float32 arithmetic on the values modelled (rounding is not modelled:    *)
(* the rationals stand for their nearest float32).                         *)
(***************************************************************************)
FNeg(a) ==
    IF a.k = "num" THEN Num(-a.n, a.d)
    ELSE IF a.k = "inf" THEN [a EXCEPT !.n = -a.n]
    ELSE a

FAdd(a, b) ==
    IF a.k = "nan" \/ b.k = "nan" THEN NaN
    ELSE IF a.k = "inf" /\ b.k = "inf" THEN (IF a.n = b.n THEN a ELSE NaN)
    ELSE IF a.k = "inf" THEN a
    ELSE IF b.k = "inf" THEN b
    ELSE Add(a, b)

FSub(a, b) == FAdd(a, FNeg(b))

\* den + EPS in float32: EPS is below half an ulp of every non-zero value modelled
AddEps(den) == IF den = Zero THEN EPS ELSE den

Sign(a) == IF a.n > 0 THEN 1 ELSE IF a.n < 0 THEN -1 ELSE 0

\* a / b for b # 0
FDiv(a, b) ==
    IF a.k = "nan" \/ b.k = "nan" THEN NaN
    ELSE IF a.k = "inf"
         THEN (IF b.k = "inf" THEN NaN
               ELSE IF a.n * Sign(b) > 0 THEN Inf ELSE NegInf)
    ELSE IF b.k = "inf" THEN Zero
    ELSE IF b.k = "eps" THEN (IF a = Zero THEN Zero ELSE OverEps(a))
    ELSE Num(a.n * b.d, a.d * b.n)

RECURSIVE Pow10(_)
Pow10(e) == IF e = 0 THEN 1 ELSE 10 * Pow10(e - 1)

\* np.power(10.0, x / 10.0, dtype=np.float32), for x a whole number of decades
Pow10Db(x) ==
    IF x.k = "nan" THEN NaN
    ELSE IF x.k = "inf" THEN (IF x.n > 0 THEN Inf ELSE Zero)
    ELSE LET e == x.n \div 10
         IN  \* float32: 10 ** 38 is the last finite power of ten
             IF e > 38 THEN Inf
             ELSE IF e >= 0 THEN Num(Pow10(e), 1)
             ELSE Num(1, Pow10(-e))

(***************************************************************************)
(* The relative burn ratio: s1_relative_burn_ratio_from_pairs.             *)
(***************************************************************************)
VARIABLES
    b_pc,        \* where main stands
    b_in,        \* the two rasters, their names, --inputs-in-db
    b_avail,     \* available
    b_k,         \* index of the next polarization of the loop
    b_samples,   \* per polarization, the two samples handed to compute_rbr
    b_rbr,       \* per polarization, what compute_rbr returned
    b_out,       \* per polarization, the raster on disk: <<>> is no file
    b_log        \* what was printed

rbrVars == <<b_pc, b_in, b_avail, b_k, b_samples, b_rbr, b_out, b_log>>

Ten == Num(10, 1)
Decades == [p \in Pixels |-> Num(10 * p, 1)]
Hot == [p \in Pixels |-> IF p = 1 THEN Num(400, 1) ELSE Num(-10, 1)]
Gap == [p \in Pixels |-> IF p = 1 THEN Zero ELSE Num(20, 1)]

RbrDatasets ==
    { Dataset(1, NoDescs(1), NoTags(1), NoneV, G0, <<Const(Ten)>>),
      Dataset(1, NoDescs(1), NoTags(1), Zero, G0, <<Gap>>),
      Dataset(1, NoDescs(1), NoTags(1), NoneV, G1, <<Decades>>),
      Dataset(2, NoDescs(2), NoTags(2), NoneV, G0, <<Decades, Hot>>),
      Dataset(2, <<None, "VV">>, NoTags(2), NoneV, G0, <<Const(NaN), Const(Zero)>>) }

RbrNames == {"b.tif", "s1_VV.tif", "s1_vh.tif"}

RbrWarps ==
    { [data |-> Const(Ten), valid |-> LastOnly],
      [data |-> Gap, valid |-> Ones],
      [data |-> Const(NaN), valid |-> Ones] }

NoSample == [data |-> NoArr, mask |-> NoArr]

RbrInit ==
    /\ b_pc = "open"
    /\ b_in \in [before : RbrDatasets, after : RbrDatasets,
                 before_name : RbrNames, after_name : RbrNames,
                 inputs_in_db : BOOLEAN]
    /\ b_avail = << >>
    /\ b_k = 1
    /\ b_samples = [pol \in Pols |-> [before |-> NoSample, after |-> NoSample]]
    /\ b_rbr = [pol \in Pols |-> NoSample]
    /\ b_out = [pol \in Pols |-> NoArr]
    /\ b_log = << >>

grids_match(p1, p2) ==
    /\ p1.crs = p2.crs
    /\ p1.transform = p2.transform
    /\ p1.width = p2.width
    /\ p1.height = p2.height

\* reproject_to_ref of the burn-ratio tool, given what reproject() wrote
rbr_reproject_to_ref(dst_data, dst_valid) ==
    [data |-> dst_data,
     mask |-> [p \in Pixels |-> dst_valid[p] = 0 \/ ~isfinite(dst_data[p])]]

to_linear(ma_db) ==
    [data |-> [p \in Pixels |-> Pow10Db(ma_db.data[p])], mask |-> ma_db.mask]

\* np.ma.divide(num, den): masked where an operand is masked or the quotient
\* is not finite, and the masked cells hold the numerator
MaDivide(num, den, mask) ==
    LET q == [p \in Pixels |-> FDiv(num[p], den[p])]
        m == [p \in Pixels |-> mask[p] \/ ~isfinite(q[p])]
    IN  [data |-> [p \in Pixels |-> IF m[p] THEN num[p] ELSE q[p]], mask |-> m]

\* faulty variant: the masks are intersected, not united
compute_rbr_and(before_lin, after_lin) ==
    LET mask == [p \in Pixels |-> before_lin.mask[p] /\ after_lin.mask[p]]
        b    == [p \in Pixels |-> IF before_lin.mask[p] THEN Zero ELSE before_lin.data[p]]
        a    == [p \in Pixels |-> IF after_lin.mask[p] THEN Zero ELSE after_lin.data[p]]
        num  == [p \in Pixels |-> FSub(a[p], b[p])]
        den  == [p \in Pixels |-> FAdd(a[p], b[p])]
        r    == MaDivide(num, [p \in Pixels |-> AddEps(den[p])], mask)
    IN  [data |-> r.data,
         mask |-> [p \in Pixels |-> mask[p] \/ ~isfinite(r.data[p])]]

compute_rbr(before_lin, after_lin) ==
    LET mask == [p \in Pixels |-> before_lin.mask[p] \/ after_lin.mask[p]]
        b    == [p \in Pixels |-> IF before_lin.mask[p] THEN Zero ELSE before_lin.data[p]]
        a    == [p \in Pixels |-> IF after_lin.mask[p] THEN Zero ELSE after_lin.data[p]]
        num  == [p \in Pixels |-> FSub(a[p], b[p])]
        den  == [p \in Pixels |-> FAdd(a[p], b[p])]
        r    == MaDivide(num, [p \in Pixels |-> AddEps(den[p])], mask)
    IN  [data |-> r.data,
         mask |-> [p \in Pixels |-> mask[p] \/ ~isfinite(r.data[p])]]

\* faulty variant: the scan stops at the first common polarization
AvailableFirst(pol_b, pol_a) ==
    LET both == SelectSeq(PolOrder, LAMBDA pol : pol \in DOMAIN pol_b /\ pol \in DOMAIN pol_a)
    IN  IF both = << >> THEN both ELSE <<both[1]>>

\* for pol in ("VV", "VH"): if pol in pol_b and pol in pol_a: available.append(pol)
Available(pol_b, pol_a) ==
    SelectSeq(PolOrder, LAMBDA pol : pol \in DOMAIN pol_b /\ pol \in DOMAIN pol_a)

\* rasterio.open raised on one of the two inputs
RbrOpenFails ==
    /\ b_pc = "open"
    /\ b_pc' = "crashed"
    /\ UNCHANGED <<b_in, b_avail, b_k, b_samples, b_rbr, b_out, b_log>>

\* resolve both rasters; no common polarization: print("[ERROR] ..."); return
RbrResolve ==
    /\ b_pc = "open"
    /\ LET pol_b == find_pol_indices(b_in.before, b_in.before_name)
           pol_a == find_pol_indices(b_in.after, b_in.after_name)
           available == Available(pol_b, pol_a)
           skipped == SelectSeq(PolOrder, LAMBDA pol :
                          ~(pol \in DOMAIN pol_b /\ pol \in DOMAIN pol_a))
           infos == [j \in 1..Len(skipped) |-> <<"INFO", skipped[j]>>]
       IN  /\ b_avail' = available
           /\ IF available = << >>
              THEN /\ b_pc' = "aborted"
                   /\ b_log' = b_log \o infos \o << <<"ERROR">> >>
              ELSE /\ b_pc' = "loop"
                   /\ b_log' = b_log \o infos
    /\ UNCHANGED <<b_in, b_k, b_samples, b_rbr, b_out>>

\* out = full(NODATA_OUT); out[valid] = rbr.filled(0.0)[valid]
RbrRaster(rbr) ==
    [p \in Pixels |-> IF ~rbr.mask[p] THEN rbr.data[p] ELSE NODATA_OUT]

\* one turn of "for pol in available"
RbrPol ==
    /\ b_pc = "loop"
    /\ b_k <= Len(b_avail)
    /\ LET pol    == b_avail[b_k]
           b_idx  == find_pol_indices(b_in.before, b_in.before_name)[pol]
           a_idx  == find_pol_indices(b_in.after, b_in.after_name)[pol]
           b_band == read_band_masked(b_in.before, b_idx)
           a_read == read_band_masked(b_in.after, a_idx)
           warps  == IF grids_match(b_in.before.grid, b_in.after.grid)
                     THEN {a_read}
                     ELSE {rbr_reproject_to_ref(w.data, w.valid) : w \in RbrWarps}
       IN  \E a_band \in warps :
             LET b_lin == IF b_in.inputs_in_db THEN to_linear(b_band) ELSE b_band
                 a_lin == IF b_in.inputs_in_db THEN to_linear(a_band) ELSE a_band
                 rbr   == compute_rbr(b_lin, a_lin)
             IN  /\ b_samples' = [b_samples EXCEPT ![pol] =
                                     [before |-> b_lin, after |-> a_lin]]
                 /\ b_rbr' = [b_rbr EXCEPT ![pol] = rbr]
                 /\ b_out' = [b_out EXCEPT ![pol] = RbrRaster(rbr)]
                 /\ b_log' = Append(b_log, <<"OK", pol>>)
    /\ b_k' = b_k + 1
    /\ UNCHANGED <<b_pc, b_in, b_avail>>

\* print("Done.")
RbrFinish ==
    /\ b_pc = "loop"
    /\ b_k > Len(b_avail)
    /\ b_pc' = "done"
    /\ b_log' = Append(b_log, <<"Done.">>)
    /\ UNCHANGED <<b_in, b_avail, b_k, b_samples, b_rbr, b_out>>

RbrIdle ==
    /\ b_pc = "idle"
    /\ b_in = [inputs_in_db |-> FALSE]
    /\ b_avail = << >>
    /\ b_k = 1
    /\ b_samples = [pol \in Pols |-> [before |-> NoSample, after |-> NoSample]]
    /\ b_rbr = [pol \in Pols |-> NoSample]
    /\ b_out = [pol \in Pols |-> NoArr]
    /\ b_log = << >>

AvgIdle ==
    /\ files = << >>
    /\ pc = "idle"
    /\ i = 1
    /\ ref = NoRef
    /\ sums = [g \in Groups |-> [pol \in Pols |-> NoArr]]
    /\ counts = [g \in Groups |-> [pol \in Pols |-> NoArr]]
    /\ total_used = [g \in Groups |-> [pol \in Pols |-> 0]]
    /\ opened = << >>
    /\ records = << >>
    /\ wi = 1
    /\ written = [o \in 1..Len(Outputs) |-> NoArr]
    /\ log = << >>
    /\ err = ""

(***************************************************************************)
(* The masked reader on its own: read_band_masked of the averager and of   *)
(* the burn-ratio tool (the same statements in both).                      *)
(***************************************************************************)
VARIABLES
    m_pc,        \* "in": the band is still to be read, "out": it was
    m_in,        \* the band as stored and the raster's declared nodata
    m_out        \* the masked array returned

readVars == <<m_pc, m_in, m_out>>

ReadVals == {NaN, Inf, NegInf, Zero, Two, NODATA_OUT}
ReadNodata == {NoneV, NaN, Inf, Zero, NODATA_OUT}

ReadInit ==
    /\ m_pc = "in"
    /\ m_in \in [band : [Pixels -> ReadVals], nodata : ReadNodata]
    /\ m_out = NoSample

\* band = read_band_masked(ds, b)
ReadBand ==
    /\ m_pc = "in"
    /\ m_out' = read_band_masked(
                    Dataset(1, NoDescs(1), NoTags(1), m_in.nodata, G0, <<m_in.band>>), 1)
    /\ m_pc' = "out"
    /\ UNCHANGED m_in

ReadIdle ==
    /\ m_pc = "idle"
    /\ m_in = << >>
    /\ m_out = NoSample

(***************************************************************************)
(* The preview renderers: s1_extract_images.main for one band of one file, *)
(* and tiff2png.main.                                                      *)
(***************************************************************************)
VARIABLES
    g_pc,        \* "in": the band is still to be handled, "out": it was
    g_in,        \* the tool, the band, its nodata and the options
    g_out        \* whether a PNG was saved, with which range, and the line printed

pngVars == <<g_pc, g_in, g_out>>

\* --sample: default 5e6
SAMPLE_DEFAULT == 5000000

\* a < b on finite values
FLess(a, b) ==
    IF a.k = "big" THEN FALSE
    ELSE IF b.k = "big" THEN TRUE
    ELSE a.n * b.d < b.n * a.d

\* max(a, b) and min(a, b) of Python: the first argument unless the second beats it
PyMax(a, b) == IF FLess(a, b) THEN b ELSE a
PyMin(a, b) == IF FLess(b, a) THEN b ELSE a

\* a + n/d in float64, for n/d one of 0.1 and 1e-6: 1e20 absorbs both addends
AddSmall(a, n, d) == IF a.k = "big" THEN a ELSE Add(a, Num(n, d))

\* the e with x = 10 ** e, for x a power of ten
Exp10(x) ==
    IF x.d = 1 THEN CHOOSE e \in 0..9 : Pow10(e) = x.n
    ELSE -(CHOOSE e \in 0..9 : Pow10(e) = x.d)

\* 10.0 * np.ma.log10(m) for a positive power of ten
Log10Db(x) == IF x.k = "big" THEN Num(200, 1) ELSE Num(10 * Exp10(x), 1)

\* np.ma.masked_less_equal(ma, 0), then 10 * log10
to_db_safe(ma) ==
    LET m == [p \in Pixels |->
                 ma.mask[p] \/ (ma.data[p].k = "num" /\ ma.data[p].n <= 0)]
    IN  [data |-> [p \in Pixels |-> IF m[p] THEN ma.data[p] ELSE Log10Db(ma.data[p])],
         mask |-> m]

RECURSIVE compressed_from(_, _)
\* ma.compressed(): the values not masked, in pixel order
compressed_from(ma, p) ==
    IF p > NPix THEN << >>
    ELSE IF ma.mask[p] THEN compressed_from(ma, p + 1)
    ELSE <<ma.data[p]>> \o compressed_from(ma, p + 1)

compressed(ma) == compressed_from(ma, 1)

RECURSIVE Insert(_, _)
Insert(x, s) ==
    IF s = << >> THEN <<x>>
    ELSE IF FLess(Head(s), x) THEN <<Head(s)>> \o Insert(x, Tail(s))
    ELSE <<x>> \o s

RECURSIVE Sorted(_)
Sorted(v) == IF v = << >> THEN << >> ELSE Insert(Head(v), Sorted(Tail(v)))

\* a + (b - a) * t, which is a when a = b
Lerp(a, b, tn, td) ==
    IF a = b THEN a
    ELSE Add(a, Num((b.n * a.d - a.n * b.d) * tn, a.d * b.d * td))

\* np.percentile(v, q) for non-empty v and 0 <= q <= 100: linear interpolation
\* at the virtual index (n - 1) * q / 100 of the sorted values
percentile(v, q) ==
    LET s    == Sorted(v)
        h    == (Len(s) - 1) * q
        prev == h \div 100
        next == IF prev + 2 > Len(s) THEN Len(s) ELSE prev + 2
    IN  Lerp(s[prev + 1], s[next], h % 100, 100)

NoRange == << >>

\* v[idx] for idx = rng.choice(v.size, size=int(sample_max), replace=False):
\* the samples a draw can keep
Sampled(v, sample_max) ==
    IF Len(v) > sample_max
    THEN { [j \in 1..sample_max |-> v[f[j]]] :
             f \in { g \in [1..sample_max -> 1..Len(v)] :
                       \A a, b \in 1..sample_max : a # b => g[a] # g[b] } }
    ELSE {v}

\* robust_percentiles, from "lo = np.percentile(v, plo)" on, for the samples kept
robust_range(v, plo, phi) ==
    LET lo0 == percentile(v, plo)
        hi0 == percentile(v, phi)
        back == ~FLess(lo0, hi0)
        s   == Sorted(v)
        lo  == IF back THEN s[1] ELSE lo0
        hi  == IF back THEN s[Len(s)] ELSE hi0
    IN  <<lo, IF lo = hi THEN AddSmall(lo, 1, 1000000) ELSE hi>>

\* robust_percentiles: the ranges it can return (NoRange for None, None)
robust_percentiles(ma, plo, phi, sample_max) ==
    IF compressed(ma) = << >> THEN {NoRange}
    ELSE { robust_range(v, plo, phi) : v \in Sampled(compressed(ma), sample_max) }

\* percentiles of tiff2png
percentiles(ma, lo, hi) ==
    IF compressed(ma) = << >> THEN NoRange
    ELSE <<percentile(compressed(ma), lo), percentile(compressed(ma), hi)>>

\* 1e20: finite, and so large that float64 gives it back when 0.1 or 1e-6 is added
Huge == [k |-> "big", n |-> 1, d |-> 1]

\* pixel values of a raster of linear backscatter, and of one already in dB
LinVals == {NaN, Zero, Num(-1, 1), Num(1, 10000), Num(1, 1), Num(10, 1), Huge}
DbVals == {NaN, Num(-50, 1), Num(-20, 1), Zero, Num(10, 1), Huge}

\* the bands previewed: a band holding 1e20 holds nothing else that is finite
PngBands(vals) ==
    { b \in [Pixels -> vals] :
        (\E p \in Pixels : b[p] = Huge) => \A p \in Pixels : b[p] \in {Huge, NaN} }

NoFixed == << >>
FixedRanges == {NoFixed, <<Num(-25, 1), Zero>>}
Pclips == {<<2, 98>>, <<0, 100>>}
Tools == {"s1_extract_images", "tiff2png"}
NoPng == [png |-> FALSE, vmin |-> NaN, vmax |-> NaN, line |-> ""]

PngInit ==
    /\ g_pc = "in"
    /\ g_in \in { x \in [tool : Tools, db : BOOLEAN, nodata : {NoneV, Num(10, 1)},
                         band : PngBands(LinVals \cup DbVals),
                         fixed_range : FixedRanges, pclip : Pclips,
                         sample : {1, SAMPLE_DEFAULT}] :
                    /\ x.band \in PngBands(IF x.db THEN LinVals ELSE DbVals)
                    /\ x.tool = "tiff2png" => x.sample = SAMPLE_DEFAULT }
    /\ g_out = NoPng

\* the raster opened, with the previewed band as its band 1
PngDataset == Dataset(1, NoDescs(1), NoTags(1), g_in.nodata, G0, <<g_in.band>>)

\* render_band_png, and the same lines of tiff2png: the PNG is saved
Rendered(vmin, vmax) == [png |-> TRUE, vmin |-> vmin, vmax |-> vmax, line |-> "OK"]

\* vmin = max(vmin, -35.0); vmax = min(vmax, 5.0); if vmin >= vmax: vmax = vmin + 0.1
Clamp(r) ==
    LET vmin == PyMax(r[1], Num(-35, 1))
        vmax == PyMin(r[2], Num(5, 1))
    IN  <<vmin, IF ~FLess(vmin, vmax) THEN AddSmall(vmin, 1, 10) ELSE vmax>>

\* s1_extract_images.main, one polarization of one file: read, convert, range, render
PngBatch ==
    /\ g_pc = "in"
    /\ g_in.tool = "s1_extract_images"
    /\ LET band    == read_band_masked(PngDataset, 1)
           data_db == IF g_in.db THEN to_db_safe(band) ELSE band
       IN  IF g_in.fixed_range # NoFixed
           THEN g_out' = Rendered(g_in.fixed_range[1], g_in.fixed_range[2])
           ELSE \E r \in robust_percentiles(data_db, g_in.pclip[1], g_in.pclip[2],
                                            g_in.sample) :
                  IF r = NoRange
                  THEN g_out' = [NoPng EXCEPT !.line = "SKIP"]
                  ELSE g_out' = Rendered(Clamp(r)[1], Clamp(r)[2])
    /\ g_pc' = "out"
    /\ UNCHANGED g_in

\* tiff2png.main
PngSingle ==
    /\ g_pc = "in"
    /\ g_in.tool = "tiff2png"
    /\ LET band == read_band_masked(PngDataset, 1)
           data == IF g_in.db THEN to_db_safe(band) ELSE band
           r    == percentiles(data, g_in.pclip[1], g_in.pclip[2])
       IN  IF g_in.fixed_range # NoFixed
           THEN g_out' = Rendered(g_in.fixed_range[1], g_in.fixed_range[2])
           ELSE IF r = NoRange
           THEN g_out' = [NoPng EXCEPT !.line = "No valid data to plot."]
           ELSE g_out' = Rendered(r[1], IF ~FLess(r[1], r[2])
                                       THEN AddSmall(r[1], 1, 1000000) ELSE r[2])
    /\ g_pc' = "out"
    /\ UNCHANGED g_in

PngIdle ==
    /\ g_pc = "idle"
    /\ g_in = << >>
    /\ g_out = NoPng

(***************************************************************************)
(* The specifications: one tool runs, the others stand idle.            *)
(***************************************************************************)
vars == <<avgVars, resVars, rbrVars, readVars, pngVars>>

Init == AvgInit /\ ResIdle /\ RbrIdle /\ ReadIdle /\ PngIdle

Next ==
    \/ ListFiles /\ UNCHANGED <<resVars, rbrVars, readVars, pngVars>>
    \/ DateRaises /\ UNCHANGED <<resVars, rbrVars, readVars, pngVars>>
    \/ SkipNoDate /\ UNCHANGED <<resVars, rbrVars, readVars, pngVars>>
    \/ OpenFails /\ UNCHANGED <<resVars, rbrVars, readVars, pngVars>>
    \/ ProcessFile /\ UNCHANGED <<resVars, rbrVars, readVars, pngVars>>
    \/ ReprojectFails /\ UNCHANGED <<resVars, rbrVars, readVars, pngVars>>
    \/ EndLoop /\ UNCHANGED <<resVars, rbrVars, readVars, pngVars>>
    \/ WriteOutput /\ UNCHANGED <<resVars, rbrVars, readVars, pngVars>>
    \/ Finish /\ UNCHANGED <<resVars, rbrVars, readVars, pngVars>>

\* the averager
Spec == Init /\ [][Next]_vars

ResolveInit == AvgIdle /\ ResInit /\ RbrIdle /\ ReadIdle /\ PngIdle

ResolveNext == Resolve /\ UNCHANGED <<avgVars, rbrVars, readVars, pngVars>>

\* the band resolvers
SpecResolve == ResolveInit /\ [][ResolveNext]_vars

BurnInit == AvgIdle /\ ResIdle /\ RbrInit /\ ReadIdle /\ PngIdle

BurnNext ==
    \/ RbrOpenFails /\ UNCHANGED <<avgVars, resVars, readVars, pngVars>>
    \/ RbrResolve /\ UNCHANGED <<avgVars, resVars, readVars, pngVars>>
    \/ RbrPol /\ UNCHANGED <<avgVars, resVars, readVars, pngVars>>
    \/ RbrFinish /\ UNCHANGED <<avgVars, resVars, readVars, pngVars>>

\* the burn-ratio tool
SpecRbr == BurnInit /\ [][BurnNext]_vars

ReaderInit == AvgIdle /\ ResIdle /\ RbrIdle /\ ReadInit /\ PngIdle

ReaderNext == ReadBand /\ UNCHANGED <<avgVars, resVars, rbrVars, pngVars>>

\* the masked reader
SpecRead == ReaderInit /\ [][ReaderNext]_vars

PreviewInit == AvgIdle /\ ResIdle /\ RbrIdle /\ ReadIdle /\ PngInit

PreviewNext ==
    \/ PngBatch /\ UNCHANGED <<avgVars, resVars, rbrVars, readVars>>
    \/ PngSingle /\ UNCHANGED <<avgVars, resVars, rbrVars, readVars>>

\* the preview renderers
SpecPng == PreviewInit /\ [][PreviewNext]_vars

(***************************************************************************)
(* What the averager is to do, stated over the records it accumulated.     *)
(***************************************************************************)
RecsOf(g, pol) == SelectSeq(records, LAMBDA r : r.which = g /\ r.pol = pol)

RECURSIVE SumValid(_, _)
\* the sum of pixel p over the records in which p is valid
SumValid(rs, p) ==
    IF rs = << >> THEN Zero
    ELSE IF Head(rs).valid[p] THEN Add(Head(rs).data[p], SumValid(Tail(rs), p))
    ELSE SumValid(Tail(rs), p)

\* the number of records in which p is valid
CountValid(rs, p) == Cardinality({k \in 1..Len(rs) : rs[k].valid[p]})

MeanOf(rs, p) ==
    IF CountValid(rs, p) > 0
    THEN Num(SumValid(rs, p).n, SumValid(rs, p).d * CountValid(rs, p))
    ELSE Num(-9999, 1)

\* the raster the masked reader is documented to give for a file's polarization
RawBand(r) == opened[r.file].bands[r.band]
RawValid(r, p) ==
    /\ RawBand(r)[p].k = "num"
    /\ ~(opened[r.file].nodata.k = "num" /\ RawBand(r)[p] = opened[r.file].nodata)

\* a record of a file on the reference grid is the file's band, untouched
OnGridFaithful ==
    \A k \in 1..Len(records) :
        LET r == records[k]
        IN  opened[r.file].grid = ref =>
                \A p \in Pixels :
                    /\ r.valid[p] <=> RawValid(r, p)
                    /\ r.valid[p] => r.data[p] = RawBand(r)[p]

PlainTwo == Dataset(1, NoDescs(1), NoTags(1), NoneV, G0, <<Const(Two)>>)
C1Files == <<"after_20230801.tif", "before_20230101.tif">>
C1FilesVV == <<"after_20230801_VV.tif", "before_20230101_VV.tif">>
AllTwo == [p \in Pixels |-> Num(2, 1)]

\* C1 as the spec states it: before_20230101.tif and after_20230801.tif, single
\* band, every pixel 2.0, no descriptions or tags, give VV_before.tiff with every
\* pixel 2.0 and a contributing-image count of 1, and VV_after.tiff likewise.
C1_AsStated ==
    (pc = "done" /\ files = C1Files /\ opened = <<PlainTwo, PlainTwo>>) =>
        /\ written[1] = AllTwo /\ total_used["before"]["VV"] = 1
        /\ written[3] = AllTwo /\ total_used["after"]["VV"] = 1

\* C1, amended: under those two names no polarization is resolved (one band,
\* no metadata, no VV/VH in the name), so nothing is accumulated and no raster
\* is written; under before_20230101_VV.tif and after_20230801_VV.tif the run
\* writes VV_before.tiff with every pixel 2.0 and a contributing-image count of
\* 1, and VV_after.tiff likewise (and no VH raster).
C1_EndToEnd ==
    /\ (pc = "done" /\ files = C1Files /\ opened = <<PlainTwo, PlainTwo>>) =>
          /\ \A o \in 1..Len(Outputs) : written[o] = NoArr
          /\ \A g \in Groups : \A pol \in Pols : total_used[g][pol] = 0
    /\ (pc = "done" /\ files = C1FilesVV /\ opened = <<PlainTwo, PlainTwo>>) =>
          /\ written[1] = AllTwo /\ total_used["before"]["VV"] = 1
          /\ written[3] = AllTwo /\ total_used["after"]["VV"] = 1
          /\ written[2] = NoArr /\ written[4] = NoArr
          /\ <<"OK", "before", "VV", 1>> \in {log[k] : k \in 1..Len(log)}
          /\ <<"OK", "after", "VV", 1>> \in {log[k] : k \in 1..Len(log)}

C1_Witness ==
    /\ pc = "done" /\ files = C1FilesVV /\ opened = <<PlainTwo, PlainTwo>>
    /\ written[1] = AllTwo /\ written[3] = AllTwo

\* C2 as the spec states it: every file name looked at either yielded a date
\* or was skipped with a warning, and no file name ends the run with an error.
C2_NameNeverFatal ==
    /\ err # "ValueError"
    /\ \A j \in 1..(i - 1) :
          \/ opened[j] # NoDs
          \/ <<"WARN", files[j]>> \in {log[k] : k \in 1..Len(log)}

\* the day a date stands for, as one number
DayNumber(d) == d.y * 10000 + d.m * 100 + d.d
GroupOfDate(d) == IF DayNumber(d) < 20230718 THEN "before" ELSE "after"

\* C3: a dated file is in exactly one group, "before" iff its date is strictly
\* earlier than 2023-07-18 (the threshold day itself is "after"), and the
\* accumulators of a group hold the contributions of that group's files only.
C3_Grouping ==
    /\ \A k \in 1..Len(records) :
          records[k].which = GroupOfDate(DateOf[files[records[k].file]])
    /\ \A g \in Groups : \A pol \in Pols :
          LET mine == SelectSeq(records, LAMBDA r :
                          r.pol = pol /\ GroupOfDate(DateOf[files[r.file]]) = g)
          IN  /\ total_used[g][pol] = Len(mine)
              /\ (sums[g][pol] = NoArr) <=> (mine = << >>)
              /\ sums[g][pol] # NoArr =>
                    \A p \in Pixels :
                        /\ sums[g][pol][p] = SumValid(mine, p)
                        /\ counts[g][pol][p] = CountValid(mine, p)

C3_Witness ==
    /\ pc = "done"
    /\ \E k \in 1..Len(records) :
          /\ DateOf[files[records[k].file]] = [kind |-> "date", y |-> 2023, m |-> 7, d |-> 18]
          /\ records[k].which = "after"
    /\ \E k \in 1..Len(records) : records[k].which = "before"

\* C4: every pixel of every raster written is the sum of that pixel over the
\* group's records in which it is valid, divided by their number, or -9999.0
\* when there is none; a group of one file reproduces the file's valid pixels.
C4_Mean ==
    /\ OnGridFaithful
    /\ \A o \in 1..Len(Outputs) :
          LET rs == RecsOf(Outputs[o][1], Outputs[o][2])
          IN  written[o] # NoArr =>
                /\ pc \in {"write", "done"} /\ i > Len(files)
                /\ \A p \in Pixels : written[o][p] = MeanOf(rs, p)
                /\ Len(rs) = 1 =>
                      \A p \in Pixels : rs[1].valid[p] => written[o][p] = rs[1].data[p]

C4_Witness ==
    /\ pc = "done"
    /\ \E o \in 1..Len(Outputs) :
          LET rs == RecsOf(Outputs[o][1], Outputs[o][2])
          IN  /\ written[o] # NoArr
              /\ \E p \in Pixels : CountValid(rs, p) = 2 /\ written[o][p] # Num(2, 1)
              /\ \E p \in Pixels : CountValid(rs, p) = 0 /\ written[o][p] = Num(-9999, 1)

\* C5: once the write loop has passed an output, its raster is on disk iff some
\* pixel got a valid contribution; an output with no contributing file, or
\* whose files have no valid pixel, is skipped with a diagnostic and not written.
C5_WrittenIff ==
    \A o \in 1..Len(Outputs) :
        LET rs == RecsOf(Outputs[o][1], Outputs[o][2])
            contributed == \E k \in 1..Len(rs) : \E p \in Pixels : rs[k].valid[p]
        IN  /\ written[o] # NoArr => (pc \in {"write", "done"} /\ wi > o)
            /\ (pc \in {"write", "done"} /\ wi > o) =>
                  /\ written[o] # NoArr <=> contributed
                  /\ ~contributed =>
                        <<"INFO", Outputs[o][1], Outputs[o][2]>> \in
                            {log[k] : k \in 1..Len(log)}
            /\ (pc = "done" /\ wi <= o) => (files = << >> /\ ~contributed)

C5_Witness ==
    /\ pc = "done"
    /\ \E o \in 1..Len(Outputs) :
          /\ total_used[Outputs[o][1]][Outputs[o][2]] > 0
          /\ written[o] = NoArr
    /\ \E o \in 1..Len(Outputs) : written[o] # NoArr

RECURSIVE FoldRecords(_, _, _)
\* accumulate the records rs in the order given by the index sequence
FoldRecords(rs, order, acc) ==
    IF order = << >> THEN acc
    ELSE FoldRecords(rs, Tail(order),
             [sum |-> AccSum(acc.sum, rs[Head(order)]),
              count |-> AccCount(acc.count, rs[Head(order)])])

Orders(n) == {f \in [1..n -> 1..n] : \A a, b \in 1..n : f[a] = f[b] => a = b}

Normal(t) == str_upper(str_strip(t))

\* the bands whose description names pol
DescBands(ds, pol) ==
    {b \in 1..Len(ds.descriptions) :
        ds.descriptions[b] \notin {None, ""} /\ Normal(ds.descriptions[b]) = pol}

\* the bands one of whose four tags names pol
TagBands(ds, pol) ==
    {b \in 1..ds.count :
        \E k \in DOMAIN ds.tags[b] :
            /\ k \in {"BAND_NAME", "name", "band_name", "long_name"}
            /\ ds.tags[b][k] \notin {None, ""}
            /\ Normal(ds.tags[b][k]) = pol}

NameNames(ds, name, pol) == ds.count = 1 /\ Contains(pol, str_upper(name))

Lowest(S) == CHOOSE m \in S : \A x \in S : m <= x

\* what descriptions, tags and file name give, in that order
Early(ds, name, pol) ==
    IF DescBands(ds, pol) # {} THEN Lowest(DescBands(ds, pol))
    ELSE IF TagBands(ds, pol) # {} THEN Lowest(TagBands(ds, pol))
    ELSE IF NameNames(ds, name, pol) THEN 1
    ELSE 0

RbrIdx(pol) == IF pol \in DOMAIN r_out.rbr THEN r_out.rbr[pol] ELSE 0

\* C7: per polarization the first of descriptions, tags, file name that names
\* it decides, and within descriptions or tags the lowest matching band: a
\* description is never overridden by a tag or the name, a tag never by the name.
C7_FirstMatchWins ==
    r_pc = "out" =>
        \A pol \in Pols : \A x \in {r_out.avg[pol], RbrIdx(pol)} :
            /\ DescBands(r_ds, pol) # {} => x = Lowest(DescBands(r_ds, pol))
            /\ (DescBands(r_ds, pol) = {} /\ TagBands(r_ds, pol) # {}) =>
                  x = Lowest(TagBands(r_ds, pol))
            /\ (DescBands(r_ds, pol) = {} /\ TagBands(r_ds, pol) = {}
                  /\ NameNames(r_ds, r_name, pol)) => x = 1

C7_Witness ==
    /\ r_pc = "out"
    /\ \E pol \in Pols :
          /\ DescBands(r_ds, pol) # {} /\ TagBands(r_ds, pol) # {}
          /\ Lowest(TagBands(r_ds, pol)) < Lowest(DescBands(r_ds, pol))
          /\ Cardinality(DescBands(r_ds, pol)) >= 1
          /\ r_out.avg[pol] = Lowest(DescBands(r_ds, pol))
          /\ RbrIdx(pol) = Lowest(DescBands(r_ds, pol))

\* C8: band 1 = VV, band 2 = VH is assumed only for a raster of two or more
\* bands neither of whose polarizations was resolved by descriptions, tags or
\* name; otherwise the result is what those steps gave, so with one resolved
\* the other stays absent, and a lone band nothing names has both absent.
C8_Fallback ==
    r_pc = "out" =>
        \A x \in {r_out.avg, r_out.png} :
            IF /\ r_ds.count >= 2
               /\ Early(r_ds, r_name, "VV") = 0
               /\ Early(r_ds, r_name, "VH") = 0
            THEN x = [VV |-> 1, VH |-> 2]
            ELSE x = [VV |-> Early(r_ds, r_name, "VV"), VH |-> Early(r_ds, r_name, "VH")]

C8_Witness ==
    /\ r_pc = "out"
    /\ r_ds.count >= 2
    /\ Early(r_ds, r_name, "VV") # 0
    /\ Early(r_ds, r_name, "VH") = 0
    /\ r_out.avg["VH"] = 0
    /\ r_out.png["VH"] = 0

(***************************************************************************)
(* What the burn-ratio tool is to do.                                      *)
(***************************************************************************)
\* (after - before) / (after + before + epsilon)
Ratio(before, after) == FDiv(FSub(after, before), AddEps(FAdd(after, before)))

\* the band of an input that the tool reads for pol, and its validity
RbrRaw(ds, name, pol) == ds.bands[find_pol_indices(ds, name)[pol]]
RbrRawValid(ds, name, pol, p) ==
    /\ RbrRaw(ds, name, pol)[p].k = "num"
    /\ ~(ds.nodata.k = "num" /\ RbrRaw(ds, name, pol)[p] = ds.nodata)

\* the before sample is the before band as read (in linear power)
BeforeSampleFaithful(pol) ==
    \A p \in Pixels :
        /\ ~b_samples[pol].before.mask[p] <=>
              RbrRawValid(b_in.before, b_in.before_name, pol, p)
        /\ ~b_samples[pol].before.mask[p] =>
              b_samples[pol].before.data[p] =
                  IF b_in.inputs_in_db
                  THEN Pow10Db(RbrRaw(b_in.before, b_in.before_name, pol)[p])
                  ELSE RbrRaw(b_in.before, b_in.before_name, pol)[p]

Common ==
    {pol \in Pols :
        /\ pol \in DOMAIN find_pol_indices(b_in.before, b_in.before_name)
        /\ pol \in DOMAIN find_pol_indices(b_in.after, b_in.after_name)}

Printed(line) == line \in {b_log[k] : k \in 1..Len(b_log)}

\* C10: RBR_<pol>.tiff is written exactly for the polarizations resolved in
\* both rasters; with none in common the run ends on an [ERROR] message before
\* anything is read or written.
C10_CommonPolarizations ==
    /\ \A pol \in Pols : b_out[pol] # NoArr => pol \in Common
    /\ b_pc = "done" =>
          /\ Common # {}
          /\ \A pol \in Pols : b_out[pol] # NoArr <=> pol \in Common
    /\ b_pc \in {"loop", "done"} => Common # {}
    /\ b_pc = "aborted" <=> (Common = {} /\ Printed(<<"ERROR">>))
    /\ b_pc = "aborted" =>
          /\ \A pol \in Pols : b_out[pol] = NoArr
          /\ ~Printed(<<"Done.">>)
          /\ ~ENABLED BurnNext

C10_Witness ==
    /\ b_pc = "done"
    /\ b_out["VV"] # NoArr
    /\ b_out["VH"] = NoArr
    /\ "VH" \in DOMAIN find_pol_indices(b_in.before, b_in.before_name)
    /\ Printed(<<"INFO", "VH">>)

(***************************************************************************)
(* What the preview renderers, the masked reader and the averager's loop   *)
(* are to do.                                                              *)
(***************************************************************************)
\* a render of the batch tool whose range came from the percentiles
PercentileRender ==
    /\ g_pc = "out"
    /\ g_in.tool = "s1_extract_images"
    /\ g_in.fixed_range = NoFixed
    /\ g_out.png

\* C11 as the spec states it: a percentile-derived range handed to the renderer
\* lies within [-35, 5] dB, whatever the valid samples.
C11_RangeClamped ==
    PercentileRender =>
        /\ ~FLess(g_out.vmin, Num(-35, 1))
        /\ ~FLess(Num(5, 1), g_out.vmax)

\* the band has no valid sample: every pixel is NaN, the declared nodata, or
\* not positive when decibels are taken
NoValidSamples ==
    \A p \in Pixels :
        \/ g_in.band[p].k = "nan"
        \/ g_in.band[p] = g_in.nodata
        \/ (g_in.db /\ g_in.band[p].k = "num" /\ g_in.band[p].n <= 0)

\* C12 as the spec states it: a band without valid samples is skipped with a
\* diagnostic and no PNG is saved, under every option, a fixed range included.
C12_SkippedWithoutSamples ==
    (g_pc = "out" /\ NoValidSamples) =>
        /\ ~g_out.png
        /\ g_out.line \in {"SKIP", "No valid data to plot."}

\* C13: the masked reader masks a pixel iff its value is NaN or +/-Inf or
\* equals the declared nodata; with nodata absent or NaN exactly the NaN and
\* +/-Inf pixels are masked; the values themselves are returned untouched.
C13_MaskExact ==
    m_pc = "out" =>
        LET declared == m_in.nodata.k \notin {"None", "nan"}
        IN  /\ m_out.data = m_in.band
            /\ \A p \in Pixels :
                  LET nonfinite == m_in.band[p].k \in {"nan", "inf"}
                  IN  /\ m_out.mask[p] <=>
                            (nonfinite \/ (declared /\ m_in.band[p] = m_in.nodata))
                      /\ ~declared => (m_out.mask[p] <=> nonfinite)

C13_Witness ==
    /\ m_pc = "out"
    /\ m_in.nodata = Zero
    /\ \E p \in Pixels : m_in.band[p] = Zero /\ m_out.mask[p]
    /\ \E p \in Pixels : m_in.band[p] = Two /\ ~m_out.mask[p]

\* C14: a raster is written only after the file loop has gone through every
\* file, so a run ended by an error on a file name, an open, a read or a
\* reprojection has written no raster.
C14_ReadsBeforeWrites ==
    /\ (\E o \in 1..Len(Outputs) : written[o] # NoArr) =>
          /\ pc \in {"write", "done"}
          /\ i = Len(files) + 1
          /\ Len(opened) = Len(files)
    /\ pc \in {"start", "loop", "crashed"} =>
          /\ wi = 1
          /\ \A o \in 1..Len(Outputs) : written[o] = NoArr

C14_Witness ==
    /\ pc = "crashed"
    /\ err = "CPLE_AppDefinedError"
    /\ \E k \in 1..Len(records) : \E p \in Pixels : records[k].valid[p]
    /\ \A o \in 1..Len(Outputs) : written[o] = NoArr

\* C15: at every point of the file loop and after it, for every group and
\* polarization, the sum grid and the count grid are both uncreated or both
\* created, created iff the contributing-image counter is above 0, and no
\* pixel's count exceeds that counter.
C15_Accumulators ==
    \A g \in Groups : \A pol \in Pols :
        /\ (sums[g][pol] = NoArr) <=> (counts[g][pol] = NoArr)
        /\ (sums[g][pol] # NoArr) <=> (total_used[g][pol] > 0)
        /\ counts[g][pol] # NoArr =>
              \A p \in Pixels :
                  /\ 0 <= counts[g][pol][p]
                  /\ counts[g][pol][p] <= total_used[g][pol]

C15_Witness ==
    /\ pc = "loop"
    /\ \E g \in Groups : \E pol \in Pols :
          /\ total_used[g][pol] > 0
          /\ counts[g][pol] # NoArr
          /\ \A p \in Pixels : counts[g][pol][p] = 0

\* C16 as stated: a percentile-derived range handed to the renderer of the
\* batch tool has vmin < vmax strictly, whatever the valid samples.
C16_StrictRange == PercentileRender => FLess(g_out.vmin, g_out.vmax)

=============================================================================
